---- MODULE Spec2Model ----
(***************************************************************************)
(* S3FileManager.sync_directory of                                         *)
(* aws-s3-integration-demo/examples/s3_file_manager.py, together with the  *)
(* string functions it builds keys with and the bucket it acts on.         *)
(*                                                                         *)
(* A string is a sequence of one-character strings, so that str.replace,   *)
(* str.lstrip and the Prefix filter are computed character by character.   *)
(***************************************************************************)
EXTENDS Integers, Sequences, FiniteSets, TLC

(* ------------------------------ bounds -------------------------------- *)

\* local modification times are drawn from 1..MaxMtime
MaxMtime == 3

\* number of sync_directory calls in one behaviour
MaxPasses == 2

\* number of files in the local tree
MaxFiles == 1

\* number of objects in the bucket before the first call
MaxObjects == 2

\* number of keys the service returns in one listing response
PageSize == 1

\* number of POST /submit requests in one behaviour
MaxRequests == 2

\* time.time() in whole seconds runs over 1..MaxTime
MaxTime == 2

\* number of items in the data list of a Lambda event
MaxData == 2

\* number of files in the local tree of the key-construction runs
MaxKeyFiles == 2

(* --------------------------- input universes -------------------------- *)

\* s3_prefix arguments: the default '' and a name
Prefixes == { <<>>, <<"p">> }

\* relative paths str(f.relative_to(local_path)) of the local tree: a plain
\* name, a name that contains the prefix string, and a path whose separator
\* is a backslash (a nested file on Windows, a file name on POSIX)
LocalPaths == { <<"a">>, <<"a", "p">>, <<"a", "\\", "a">> }

\* s3_prefix arguments of the key-construction runs: also a name that ends
\* in a slash, as in sync_directory('dir', 'p/')
WidePrefixes == Prefixes \cup { <<"p", "/">> }

\* relative paths of the key-construction runs: a plain name, a file in a
\* subdirectory, and a file whose name holds a backslash (POSIX)
KeyPaths == { <<"a">>, <<"a", "/", "a">>, <<"a", "\\", "a">> }

\* keys of the objects the bucket may hold before the first call
RemoteKeys ==
    { <<"p", "/", "a">>,
      <<"p", "/", "a", "p">>,
      <<"p", "/", "a", "/", "a">> }

\* results of one call to the S3 client: it returns, it raises
\* botocore.exceptions.ClientError, or it raises another exception
\* (boto3.exceptions.S3UploadFailedError, botocore's BotoCoreError family)
Outcomes == { "ok", "ClientError", "OtherError" }

(* --------------------------- string functions ------------------------- *)

\* str.lstrip(c): every leading occurrence of the character is removed
RECURSIVE lstrip(_, _)
lstrip(s, c) ==
    IF s # <<>> /\ Head(s) = c THEN lstrip(Tail(s), c) ELSE s

\* str.replace(old, new): every non-overlapping occurrence, left to right;
\* an empty old matches before every character and at the end
RECURSIVE replace(_, _, _)
replace(s, old, new) ==
    IF old = <<>>
    THEN IF s = <<>> THEN new
         ELSE new \o <<Head(s)>> \o replace(Tail(s), old, new)
    ELSE IF Len(s) < Len(old) THEN s
    ELSE IF SubSeq(s, 1, Len(old)) = old
         THEN new \o replace(SubSeq(s, Len(old) + 1, Len(s)), old, new)
         ELSE <<Head(s)>> \o replace(Tail(s), old, new)

\* f"{s3_prefix}/{local_file}".replace('\\', '/').lstrip('/')
s3_key(prefix, rel) ==
    lstrip(replace(prefix \o <<"/">> \o rel, <<"\\">>, <<"/">>), "/")

\* obj.key.replace(s3_prefix, '').lstrip('/')
relative_path(prefix, key) ==
    lstrip(replace(key, prefix, <<>>), "/")

\* objects.filter(Prefix=s3_prefix) selects the keys that start with it
StartsWith(key, prefix) ==
    Len(prefix) <= Len(key) /\ SubSeq(key, 1, Len(prefix)) = prefix

\* code point of a character
Ord(c) ==
    CASE c = "/"  -> 47
      [] c = "\\" -> 92
      [] c = "a"  -> 97
      [] c = "p"  -> 112

\* the order in which the listing yields keys: by code point
RECURSIVE KeyLess(_, _)
KeyLess(x, y) ==
    IF x = <<>> THEN y # <<>>
    ELSE IF y = <<>> THEN FALSE
    ELSE IF Head(x) = Head(y) THEN KeyLess(Tail(x), Tail(y))
    ELSE Ord(Head(x)) < Ord(Head(y))

RECURSIVE SortKeys(_)
SortKeys(S) ==
    IF S = {} THEN <<>>
    ELSE LET m == CHOOSE k \in S : \A j \in S \ {k} : KeyLess(k, j)
         IN  <<m>> \o SortKeys(S \ {m})

\* one listing response: at most PageSize keys, from position start on
Page(sorted, start) ==
    SubSeq(sorted, start,
           IF start + PageSize - 1 < Len(sorted) THEN start + PageSize - 1
                                                 ELSE Len(sorted))

\* the responses the collection requests one after another, each from where
\* the one before was truncated, until a response is not truncated
RECURSIVE AllPages(_, _)
AllPages(sorted, start) ==
    IF start > Len(sorted) THEN <<>>
    ELSE Page(sorted, start) \o AllPages(sorted, start + PageSize)

\* a listing that stops after the first response
Listing_firstPage(bkt, prefix) ==
    Page(SortKeys({ k \in DOMAIN bkt : StartsWith(k, prefix) }), 1)

\* self.bucket.objects.filter(Prefix=prefix) as the sequence of keys: the
\* resource collection iterates over every response of the listing
Listing(bkt, prefix) ==
    AllPages(SortKeys({ k \in DOMAIN bkt : StartsWith(k, prefix) }), 1)

\* the dict comprehension of lines 63-64, key by key in listing order: a
\* later key of the listing with the same relative path overwrites the
\* value of an earlier one
RECURSIVE Collect(_, _, _, _)
Collect(keys, bkt, prefix, dict) ==
    IF keys = <<>> THEN dict
    ELSE LET r == relative_path(prefix, Head(keys))
         IN  Collect(Tail(keys), bkt, prefix,
                     [ q \in DOMAIN dict \cup {r} |->
                         IF q = r THEN bkt[Head(keys)] ELSE dict[q] ])

\* the remote snapshot: relative path -> last_modified
ScanRemote(bkt, prefix) == Collect(Listing(bkt, prefix), bkt, prefix, << >>)

\* iteration order of that dict: the order of first insertion
RECURSIVE FirstSeen(_, _, _)
FirstSeen(keys, prefix, seen) ==
    IF keys = <<>> THEN <<>>
    ELSE LET r == relative_path(prefix, Head(keys))
         IN  IF r \in seen
             THEN FirstSeen(Tail(keys), prefix, seen)
             ELSE <<r>> \o FirstSeen(Tail(keys), prefix, seen \cup {r})

ScanOrder(bkt, prefix) == FirstSeen(Listing(bkt, prefix), prefix, {})

\* the dict comprehension of lines 59-60: rglob of a directory that does
\* not exist yields nothing, so the snapshot is then empty
ScanLocal(exists, files) ==
    IF exists THEN files ELSE << >>

\* line 68 with >= in place of >: a file as old as its object is sent again
NeedsUpload_ge(lf, so, f) ==
    IF f \notin DOMAIN so THEN TRUE ELSE lf[f] >= so[f]

\* line 68; the right operand of "or" is evaluated only if the left is false
NeedsUpload(lf, so, f) ==
    IF f \notin DOMAIN so THEN TRUE ELSE lf[f] > so[f]

\* line 77
NeedsDelete(lf, r) ==
    r \notin DOMAIN lf

\* upload_file on success stores the object, stamped by the bucket's clock
Put(bkt, key, now) ==
    [ k \in DOMAIN bkt \cup {key} |-> IF k = key THEN now ELSE bkt[k] ]

\* Object(key).delete() on success removes the object if there is one
Remove(bkt, key) ==
    [ k \in DOMAIN bkt \ {key} |-> bkt[k] ]

(* ------------------------------- state -------------------------------- *)

VARIABLES
    dir_exists,   \* whether local_dir is an existing directory
    tree,         \* the files under local_dir: relative path -> st_mtime
    bucket,       \* the bucket: key -> last_modified
    clock,        \* the bucket's clock
    s3_prefix,    \* the s3_prefix argument of the calls
    delete,       \* the delete argument of the calls
    passNo,       \* number of sync_directory calls started
    pc,           \* position of the current call
    local_files,  \* the dict of lines 59-60
    s3_objects,   \* the dict of lines 63-64
    up_todo,      \* local files the loop of line 66 has not reached
    del_todo,     \* relative paths the loop of line 76 has not reached
    up_done,      \* local file -> outcome of its upload_file call
    del_done,     \* relative path -> outcome of its delete call
    list_result,  \* outcome of the listing of the current call
    bucket0,      \* the bucket when the current call started
    prev_clean,   \* the previous call returned and none of its calls failed
    prev_up_failed, \* an upload of the previous call raised ClientError
    stdout,       \* the lines the current call has printed
    cancelled,    \* KeyboardInterrupt was raised in the current call
    time,         \* int(time.time()) of the Flask application's host
    table,        \* the DynamoDB table of the application: user_id -> item
    rq,           \* the POST /submit requests: position, form, id, response
    inv,          \* the invocation of a wrapped Lambda handler
    xfer          \* a call of upload_directory, download_directory or
                  \* list_objects: position, progress and result

syncVars == << dir_exists, tree, bucket, clock, s3_prefix, delete, passNo,
               pc, local_files, s3_objects, up_todo, del_todo, up_done,
               del_done, list_result, bucket0, prev_clean, prev_up_failed,
               stdout, cancelled >>

webVars == << time, table, rq, inv, xfer >>

vars == << syncVars, webVars >>

\* the local directory and the arguments: no action changes them
env == << dir_exists, tree, s3_prefix, delete >>

\* the state of the sync_directory calls apart from the bucket
passVars == << clock, passNo, pc, local_files, s3_objects, up_todo, del_todo,
               up_done, del_done, list_result, bucket0, prev_clean,
               prev_up_failed, stdout, cancelled >>

\* a request that has not arrived
NoRequest == [ pc |-> "idle", form |-> << >>, user_id |-> << >>,
               response |-> << >> ]

\* Python's None, and a name that is not bound yet
None == [ kind |-> "None" ]

\* no request for a Lambda route has arrived
NoInvocation ==
    [ pc |-> "idle", handler |-> "none", body |-> None, event |-> None,
      context |-> None, answer |-> None ]

\* no call of upload_directory, download_directory or list_objects yet
NoTransfer ==
    [ pc |-> "idle", todo |-> {}, done |-> << >>, ret |-> << >>,
      dl_todo |-> << >>, target |-> {}, dl_failed |-> FALSE ]

\* the Flask applications and the transfers before any request or call
WebIdle ==
    /\ time = 1
    /\ table = << >>
    /\ rq = [ i \in 1..MaxRequests |-> NoRequest ]
    /\ inv = NoInvocation
    /\ xfer = NoTransfer

\* the bucket's clock before the first call; the objects already stored
\* carry this stamp
InitClock == MaxMtime - 1

Trees ==
    UNION { [ S -> 1..MaxMtime ] :
            S \in { T \in SUBSET LocalPaths : Cardinality(T) <= MaxFiles } }

Buckets ==
    { [ k \in S |-> InitClock ] :
      S \in { T \in SUBSET RemoteKeys : Cardinality(T) <= MaxObjects } }

Init ==
    /\ dir_exists \in BOOLEAN
    /\ tree \in IF dir_exists THEN Trees ELSE { << >> }
    /\ bucket \in Buckets
    /\ clock = InitClock
    /\ s3_prefix \in Prefixes
    /\ passNo = 0
    /\ pc = "idle"
    /\ delete \in BOOLEAN
    /\ local_files = << >>
    /\ s3_objects = << >>
    /\ up_todo = {}
    /\ del_todo = << >>
    /\ up_done = << >>
    /\ del_done = << >>
    /\ list_result = "none"
    /\ bucket0 = bucket
    /\ prev_clean = FALSE
    /\ prev_up_failed = FALSE
    /\ stdout = << >>
    /\ cancelled = FALSE
    /\ WebIdle

(* ------------------------------ actions ------------------------------- *)

\* one print call: which of the print statements, and the file or key in it
Line(tag, item) == [ line |-> tag, item |-> item ]

\* a call in a try block that drops its error: nothing is printed for a
\* ClientError
Printed_silent(out, o, okTag, errTag, item) ==
    IF o = "ok" THEN Append(out, Line(okTag, item)) ELSE out

\* lines 69-73 and 79-83: the print after the call in the try block runs
\* if the call returned, the print of the except block if it raised
\* ClientError; another exception passes both
Printed(out, o, okTag, errTag, item) ==
    IF o = "ok" THEN Append(out, Line(okTag, item))
    ELSE IF o = "ClientError" THEN Append(out, Line(errTag, item))
    ELSE out

\* what the call hands to its caller: sync_directory has no return
\* statement, so a call that returns yields None
ReturnValue ==
    IF pc = "returned" THEN [ kind |-> "None" ] ELSE [ kind |-> "no value" ]

\* no call of the current pass has failed so far
NoFailure ==
    /\ list_result = "ok"
    /\ \A f \in DOMAIN up_done : up_done[f] = "ok"
    /\ \A r \in DOMAIN del_done : del_done[r] = "ok"

\* the block of line 75 placed before the uploads are finished
AfterUploads_deleteFirst(todo, d, order) ==
    IF d /\ order # << >> THEN "deleting"
    ELSE IF todo # {} THEN "uploading"
    ELSE "returned"

\* where control is after an iteration of the loop of line 66: the loop
\* goes on, or line 75 is reached
AfterUploads(todo, d, order) ==
    IF todo # {} THEN "uploading"
    ELSE IF d /\ order # << >> THEN "deleting"
    ELSE "returned"

\* where control is after an iteration of the loop of line 76
AfterDeletes(order) ==
    IF order # << >> THEN "deleting" ELSE "returned"

\* the listing guarded by a handler of its own that goes on with an empty
\* remote snapshot
Scan_emptyOnError(o) ==
    /\ pc \in { "idle", "returned", "raised" }
    /\ ~ cancelled
    /\ passNo < MaxPasses
    /\ passNo' = passNo + 1
    /\ clock' = IF passNo = 0 THEN clock ELSE clock + 1
    /\ prev_clean' = (pc = "returned" /\ NoFailure)
    /\ prev_up_failed' =
          (\E f \in DOMAIN up_done : up_done[f] = "ClientError")
    /\ bucket0' = bucket
    /\ local_files' = ScanLocal(dir_exists, tree)
    /\ list_result' = o
    /\ up_done' = << >>
    /\ del_done' = << >>
    /\ s3_objects' = IF o = "ok" THEN ScanRemote(bucket, s3_prefix) ELSE << >>
    /\ up_todo' = DOMAIN local_files'
    /\ del_todo' = IF o = "ok" THEN ScanOrder(bucket, s3_prefix) ELSE << >>
    /\ pc' = AfterUploads(up_todo', delete, del_todo')
    /\ stdout' = << >>
    /\ UNCHANGED webVars
    /\ UNCHANGED << env, bucket, cancelled >>

\* lines 57-64 and 84-85: a call starts, takes the local snapshot and lists
\* the prefix. ClientError from the listing is caught at line 84, printed at
\* line 85 and the call returns; any other exception leaves the call.
Scan(o) ==
    /\ pc \in { "idle", "returned", "raised" }
    /\ ~ cancelled
    /\ passNo < MaxPasses
    /\ passNo' = passNo + 1
    /\ clock' = IF passNo = 0 THEN clock ELSE clock + 1
    /\ prev_clean' = (pc = "returned" /\ NoFailure)
    /\ prev_up_failed' =
          (\E f \in DOMAIN up_done : up_done[f] = "ClientError")
    /\ bucket0' = bucket
    /\ local_files' = ScanLocal(dir_exists, tree)
    /\ list_result' = o
    /\ up_done' = << >>
    /\ del_done' = << >>
    /\ IF o = "ok"
       THEN /\ s3_objects' = ScanRemote(bucket, s3_prefix)
            /\ up_todo' = DOMAIN local_files'
            /\ del_todo' = ScanOrder(bucket, s3_prefix)
            /\ pc' = AfterUploads(up_todo', delete, del_todo')
       ELSE /\ s3_objects' = << >>
            /\ up_todo' = {}
            /\ del_todo' = << >>
            /\ pc' = IF o = "ClientError" THEN "returned" ELSE "raised"
    /\ stdout' = IF o = "ClientError"
                 THEN << Line("Error syncing", << >>) >>
                 ELSE << >>
    /\ UNCHANGED webVars
    /\ UNCHANGED << env, bucket, cancelled >>

\* an upload that also stamps the local file with the time of the upload
Upload_touch(f, o) ==
    /\ pc = "uploading"
    /\ f \in up_todo
    /\ NeedsUpload(local_files, s3_objects, f)
    /\ up_done' = up_done @@ (f :> o)
    /\ up_todo' = up_todo \ {f}
    /\ bucket' = IF o = "ok"
                 THEN Put(bucket, s3_key(s3_prefix, f), clock)
                 ELSE bucket
    /\ pc' = IF o = "OtherError" THEN "raised"
             ELSE AfterUploads(up_todo', delete, del_todo)
    /\ stdout' = Printed(stdout, o, "Synced", "Error syncing file", f)
    /\ tree' = IF o = "ok" THEN [ tree EXCEPT ![f] = clock ] ELSE tree
    /\ UNCHANGED webVars
    /\ UNCHANGED << dir_exists, s3_prefix, delete, clock, passNo,
                    local_files, s3_objects,
                    del_todo, del_done, list_result, bucket0, prev_clean,
                    prev_up_failed, cancelled >>

\* lines 66-73, one iteration whose condition of line 68 holds: upload_file
\* is called and line 71 prints. ClientError is caught at line 72, printed
\* at line 73 and the loop goes on; any other exception passes lines 72 and
\* 84 and leaves the call.
Upload(f, o) ==
    /\ pc = "uploading"
    /\ f \in up_todo
    /\ NeedsUpload(local_files, s3_objects, f)
    /\ up_done' = up_done @@ (f :> o)
    /\ up_todo' = up_todo \ {f}
    /\ bucket' = IF o = "ok"
                 THEN Put(bucket, s3_key(s3_prefix, f), clock)
                 ELSE bucket
    /\ pc' = IF o = "OtherError" THEN "raised"
             ELSE AfterUploads(up_todo', delete, del_todo)
    /\ stdout' = Printed(stdout, o, "Synced", "Error syncing file", f)
    /\ UNCHANGED webVars
    /\ UNCHANGED << env, clock, passNo, local_files, s3_objects,
                    del_todo, del_done, list_result, bucket0, prev_clean,
                    prev_up_failed, cancelled >>

\* lines 66-68, one iteration whose condition of line 68 does not hold
SkipUpload(f) ==
    /\ pc = "uploading"
    /\ f \in up_todo
    /\ ~ NeedsUpload(local_files, s3_objects, f)
    /\ up_todo' = up_todo \ {f}
    /\ pc' = AfterUploads(up_todo', delete, del_todo)
    /\ UNCHANGED webVars
    /\ UNCHANGED << env, bucket, clock, passNo, local_files,
                    s3_objects, del_todo, up_done, del_done, list_result,
                    bucket0, prev_clean, prev_up_failed, stdout, cancelled >>

\* lines 76-83, one iteration whose condition of line 77 holds: the key is
\* rebuilt from the relative path and deleted, and line 81 prints.
\* ClientError is caught at line 82 and printed at line 83; any other
\* exception leaves the call.
Delete(o) ==
    /\ pc = "deleting"
    /\ del_todo # << >>
    /\ NeedsDelete(local_files, Head(del_todo))
    /\ del_done' = del_done @@ (Head(del_todo) :> o)
    /\ del_todo' = Tail(del_todo)
    /\ bucket' = IF o = "ok"
                 THEN Remove(bucket, s3_key(s3_prefix, Head(del_todo)))
                 ELSE bucket
    /\ pc' = IF o = "OtherError" THEN "raised" ELSE AfterDeletes(del_todo')
    /\ stdout' = Printed(stdout, o, "Deleted", "Error deleting",
                         s3_key(s3_prefix, Head(del_todo)))
    /\ UNCHANGED webVars
    /\ UNCHANGED << env, clock, passNo, local_files, s3_objects,
                    up_todo, up_done, list_result, bucket0, prev_clean,
                    prev_up_failed, cancelled >>

\* lines 76-77, one iteration whose condition of line 77 does not hold
SkipDelete ==
    /\ pc = "deleting"
    /\ del_todo # << >>
    /\ ~ NeedsDelete(local_files, Head(del_todo))
    /\ del_todo' = Tail(del_todo)
    /\ pc' = AfterDeletes(del_todo')
    /\ UNCHANGED webVars
    /\ UNCHANGED << env, bucket, clock, passNo, local_files,
                    s3_objects, up_todo, up_done, del_done, list_result,
                    bucket0, prev_clean, prev_up_failed, stdout, cancelled >>

\* the bucket after an interrupt: as it was, or with the effect of the call
\* the interrupt cut short (the request may have reached the service)
InFlight ==
    { bucket }
    \cup ( IF pc = "uploading"
           THEN { Put(bucket, s3_key(s3_prefix, f), clock) :
                  f \in { g \in up_todo :
                          NeedsUpload(local_files, s3_objects, g) } }
           ELSE {} )
    \cup ( IF pc = "deleting" /\ del_todo # << >>
           THEN IF NeedsDelete(local_files, Head(del_todo))
                THEN { Remove(bucket, s3_key(s3_prefix, Head(del_todo))) }
                ELSE {}
           ELSE {} )

\* an interrupt a handler catches and drops: the loops go on
Cancel_swallowed ==
    /\ pc \in { "uploading", "deleting" }
    /\ ~ cancelled
    /\ cancelled' = TRUE
    /\ UNCHANGED webVars
    /\ UNCHANGED << env, bucket, pc, clock, passNo, local_files, s3_objects,
                    up_todo, del_todo, up_done, del_done, list_result,
                    bucket0, prev_clean, prev_up_failed, stdout >>

\* the process is interrupted (SIGINT) while a loop of the call runs:
\* sync_directory takes no cancellation argument and no handler of lines
\* 57-85 catches KeyboardInterrupt, which leaves the call at once. The call
\* in flight, if any, is cut short and nothing is printed for it.
Cancel ==
    /\ pc \in { "uploading", "deleting" }
    /\ ~ cancelled
    /\ cancelled' = TRUE
    /\ pc' = "raised"
    /\ bucket' \in InFlight
    /\ UNCHANGED webVars
    /\ UNCHANGED << env, clock, passNo, local_files, s3_objects,
                    up_todo, del_todo, up_done, del_done, list_result,
                    bucket0, prev_clean, prev_up_failed, stdout >>

Next ==
    \/ \E o \in Outcomes : Scan(o)
    \/ \E f \in up_todo, o \in Outcomes : Upload(f, o)
    \/ \E f \in up_todo : SkipUpload(f)
    \/ \E o \in Outcomes : Delete(o)
    \/ SkipDelete
    \/ Cancel

Spec == Init /\ [][Next]_vars

\* the same calls over the wider prefixes and the two-file trees; every
\* file carries mtime 1, older than every object
KeyTrees ==
    { [ f \in S |-> 1 ] :
      S \in { T \in SUBSET KeyPaths : Cardinality(T) <= MaxKeyFiles } }

InitKeys ==
    /\ dir_exists \in BOOLEAN
    /\ tree \in IF dir_exists THEN KeyTrees ELSE { << >> }
    /\ bucket \in Buckets
    /\ clock = InitClock
    /\ s3_prefix \in WidePrefixes
    /\ passNo = 0
    /\ pc = "idle"
    /\ delete \in BOOLEAN
    /\ local_files = << >>
    /\ s3_objects = << >>
    /\ up_todo = {}
    /\ del_todo = << >>
    /\ up_done = << >>
    /\ del_done = << >>
    /\ list_result = "none"
    /\ bucket0 = bucket
    /\ prev_clean = FALSE
    /\ prev_up_failed = FALSE
    /\ stdout = << >>
    /\ cancelled = FALSE
    /\ WebIdle

SpecKeys == InitKeys /\ [][Next]_vars

(* ------- upload_directory, download_directory and list_objects ------- *)

\* relative paths of the transfer runs
XferPaths == LocalPaths \cup KeyPaths

XferTrees ==
    { [ f \in S |-> 1 ] :
      S \in { T \in SUBSET XferPaths : Cardinality(T) <= MaxKeyFiles } }

\* lines 19-20: the regular files under local_dir are to be visited
UpStart ==
    /\ xfer.pc = "idle"
    /\ xfer' = [ xfer EXCEPT !.pc = IF DOMAIN ScanLocal(dir_exists, tree) = {}
                                    THEN "up_returned" ELSE "uploading",
                             !.todo = DOMAIN ScanLocal(dir_exists, tree) ]
    /\ UNCHANGED << env, bucket, passVars, time, table, rq, inv >>

\* lines 21-29, one iteration: the key is built and upload_file is called;
\* on success the key is appended to uploaded_files; ClientError is caught
\* at line 28 and the loop goes on; another exception leaves the call.
\* Line 31 returns uploaded_files after the last file.
UpFile(f, o) ==
    /\ xfer.pc = "uploading"
    /\ f \in xfer.todo
    /\ bucket' = IF o = "ok"
                 THEN Put(bucket, s3_key(s3_prefix, f), clock)
                 ELSE bucket
    /\ xfer' = [ xfer EXCEPT
                   !.todo = xfer.todo \ {f},
                   !.done = xfer.done @@ (f :> o),
                   !.ret = IF o = "ok"
                           THEN Append(xfer.ret, s3_key(s3_prefix, f))
                           ELSE xfer.ret,
                   !.pc = IF o = "OtherError" THEN "up_raised"
                          ELSE IF xfer.todo = {f} THEN "up_returned"
                          ELSE "uploading" ]
    /\ UNCHANGED << env, passVars, time, table, rq, inv >>

\* the relative path cannot be written under the target: it is empty, it
\* names a directory there, or a file there is in the place of its parent
Blocked(target, rel) ==
    \/ rel = << >>
    \/ \E q \in target : StartsWith(q, rel \o << "/" >>)
    \/ \E q \in target : StartsWith(rel, q \o << "/" >>)

\* lines 33-39 and 52-55: the target directory is made and the prefix is
\* listed; ClientError from the listing is caught at line 52 and the call
\* returns the empty list
DlStart(o) ==
    /\ xfer.pc = "up_returned"
    /\ xfer' = [ xfer EXCEPT
                   !.pc = IF o = "OtherError" THEN "dl_raised"
                          ELSE IF o = "ClientError" THEN "dl_returned"
                          ELSE IF Listing(bucket, s3_prefix) = << >>
                          THEN "dl_returned" ELSE "downloading",
                   !.dl_failed = (o # "ok"),
                   !.dl_todo = IF o = "ok" THEN Listing(bucket, s3_prefix)
                                           ELSE << >> ]
    /\ UNCHANGED << env, bucket, passVars, time, table, rq, inv >>

\* lines 40-51, one iteration: the relative path is derived from the key
\* and the object is written there; ClientError is caught at line 50; the
\* file system refusing the path is an exception of another class
DlFile(o) ==
    /\ xfer.pc = "downloading"
    /\ LET rel == relative_path(s3_prefix, Head(xfer.dl_todo))
       IN  /\ Blocked(xfer.target, rel) => o = "OtherError"
           /\ xfer' = [ xfer EXCEPT
                          !.dl_todo = Tail(xfer.dl_todo),
                          !.target = IF o = "ok" THEN xfer.target \cup {rel}
                                                 ELSE xfer.target,
                          !.dl_failed = xfer.dl_failed \/ o # "ok",
                          !.pc = IF o = "OtherError" THEN "dl_raised"
                                 ELSE IF Tail(xfer.dl_todo) = << >>
                                 THEN "dl_returned" ELSE "downloading" ]
    /\ UNCHANGED << env, bucket, passVars, time, table, rq, inv >>

\* s3_basic_operations.py lines 72-84: one list_objects_v2 call; the keys
\* of its response are returned, the empty list if the response has no
\* 'Contents' or if the call raised ClientError
ListObjects(o) ==
    /\ xfer.pc = "idle"
    /\ xfer' = [ xfer EXCEPT
                   !.pc = IF o = "OtherError" THEN "list_raised"
                                              ELSE "list_returned",
                   !.done = ("list_objects_v2" :> o),
                   !.ret = IF o = "ok"
                           THEN Page(SortKeys({ k \in DOMAIN bucket :
                                                StartsWith(k, s3_prefix) }), 1)
                           ELSE << >> ]
    /\ UNCHANGED << env, bucket, passVars, time, table, rq, inv >>

InitXfer ==
    /\ dir_exists \in BOOLEAN
    /\ tree \in IF dir_exists THEN XferTrees ELSE { << >> }
    /\ bucket \in Buckets
    /\ clock = InitClock
    /\ s3_prefix \in WidePrefixes
    /\ passNo = 0
    /\ pc = "idle"
    /\ delete = FALSE
    /\ local_files = << >>
    /\ s3_objects = << >>
    /\ up_todo = {}
    /\ del_todo = << >>
    /\ up_done = << >>
    /\ del_done = << >>
    /\ list_result = "none"
    /\ bucket0 = bucket
    /\ prev_clean = FALSE
    /\ prev_up_failed = FALSE
    /\ stdout = << >>
    /\ cancelled = FALSE
    /\ WebIdle

NextXfer ==
    \/ UpStart
    \/ \E f \in xfer.todo, o \in Outcomes : UpFile(f, o)
    \/ \E o \in Outcomes : DlStart(o)
    \/ \E o \in Outcomes : DlFile(o)
    \/ \E o \in Outcomes : ListObjects(o)

SpecXfer == InitXfer /\ [][NextXfer]_vars

(* ------------------ Flask-Dynamo-app/app.py: /submit ------------------ *)

\* request.form.get(field): None if the field is absent, else its text
FieldValues == { "None", "", "x" }

Forms == [ name : FieldValues, email : FieldValues, message : FieldValues ]

\* a check for absent fields only: the empty string passes
Falsy_noneOnly(v) == v = "None"

\* "not v" of line 106: None and the empty string are false
Falsy(v) == v \in { "None", "" }

\* line 111: f"user_{int(time.time())}"
user_id(t) == << "user", t >>

\* table.put_item: the item replaces whatever is stored under its key
put_item(tbl, item) ==
    [ k \in DOMAIN tbl \cup { item.user_id } |->
        IF k = item.user_id THEN item ELSE tbl[k] ]

\* lines 94-111: the request arrives, the three fields are read and checked
\* and the id is made from the clock
Submit(i, form) ==
    /\ rq[i].pc = "idle"
    /\ rq' = [ rq EXCEPT ![i] =
                IF Falsy(form.name) \/ Falsy(form.email) \/ Falsy(form.message)
                THEN [ pc |-> "done", form |-> form, user_id |-> << >>,
                       response |-> [ status |-> "error",
                                      message |-> "All fields are required" ] ]
                ELSE [ pc |-> "put", form |-> form,
                       user_id |-> user_id(time),
                       response |-> << >> ] ]
    /\ UNCHANGED << time, table, inv, xfer, syncVars >>

\* lines 114-126: put_item is called; if it returns the route answers
\* 'success', if it raises the handler of line 124 answers 'error' with
\* the text of the exception
PutItem(i, o) ==
    /\ rq[i].pc = "put"
    /\ table' = IF o = "ok"
                THEN put_item(table, [ user_id |-> rq[i].user_id,
                                       name |-> rq[i].form.name,
                                       email |-> rq[i].form.email,
                                       message |-> rq[i].form.message ])
                ELSE table
    /\ rq' = [ rq EXCEPT ![i].pc = "done",
                         ![i].response =
                             IF o = "ok"
                             THEN [ status |-> "success",
                                    message |-> "Data saved successfully!" ]
                             ELSE [ status |-> "error",
                                    message |-> "str(e)" ] ]
    /\ UNCHANGED << time, inv, xfer, syncVars >>

\* a second passes on the host
Tick ==
    /\ time < MaxTime
    /\ time' = time + 1
    /\ UNCHANGED << table, rq, inv, xfer, syncVars >>

InitSubmit ==
    /\ dir_exists = FALSE
    /\ tree = << >>
    /\ bucket = << >>
    /\ clock = InitClock
    /\ s3_prefix = << >>
    /\ passNo = 0
    /\ pc = "idle"
    /\ delete = FALSE
    /\ local_files = << >>
    /\ s3_objects = << >>
    /\ up_todo = {}
    /\ del_todo = << >>
    /\ up_done = << >>
    /\ del_done = << >>
    /\ list_result = "none"
    /\ bucket0 = bucket
    /\ prev_clean = FALSE
    /\ prev_up_failed = FALSE
    /\ stdout = << >>
    /\ cancelled = FALSE
    /\ WebIdle

NextSubmit ==
    \/ \E i \in 1..MaxRequests, form \in Forms : Submit(i, form)
    \/ \E i \in 1..MaxRequests, o \in { "ok", "error" } : PutItem(i, o)
    \/ Tick

SpecSubmit == InitSubmit /\ [][NextSubmit]_vars

(* ------------- aws-lambda-integration-demo/app.py: wrapper ------------ *)

\* JSON values of an event, tagged by the Python type json gives them
JInt(n) == [ t |-> "int", i |-> n ]
JBool(b) == [ t |-> "bool", b |-> b ]
JStr(s) == [ t |-> "str", s |-> s ]
\* a float, held as its decimal exponent: 1eX
JFloat(x) == [ t |-> "float", e |-> x ]
JList(s) == [ t |-> "list", items |-> s ]

\* items of a data list: integers, a boolean, a string, a small float and
\* a float whose square is beyond the range of a double
Items == { JInt(2), JInt(0 - 3), JBool(TRUE), JStr("s"), JFloat(1),
           JFloat(200) }

DataLists == UNION { [ 1..n -> Items ] : n \in 0..MaxData }

\* values of the event's "data": a list, or a string
DataValues == { JList(s) : s \in DataLists } \cup { JStr("s") }

\* request bodies: JSON text that does not parse, a JSON array, and JSON
\* objects with or without "data" and "shouldFail"
Bodies ==
    { [ kind |-> "malformed" ], [ kind |-> "array" ] }
    \cup { [ kind |-> "object", keys |-> {} ] }
    \cup { [ kind |-> "object", keys |-> { "data" }, data |-> d ] :
           d \in DataValues }
    \cup { [ kind |-> "object", keys |-> { "shouldFail" }, shouldFail |-> b ] :
           b \in BOOLEAN }

Handlers == { "data_processor_handler", "error_handler_demo" }

\* the largest decimal exponent of a double
MaxExp == 308

\* isinstance(item, (int, float)) of line 92: bool is a subclass of int
IsNumber(item) == item.t \in { "int", "float", "bool" }

\* item ** 2 of line 92 raises OverflowError
Overflows(item) ==
    IF item.t = "float" THEN 2 * item.e > MaxExp ELSE FALSE

\* item ** 2 of line 92: an int for an int and for a bool, a float for a
\* float
Square(item) ==
    IF item.t = "int" THEN JInt(item.i * item.i)
    ELSE IF item.t = "bool" THEN JInt(IF item.b THEN 1 ELSE 0)
    ELSE JFloat(2 * item.e)

\* what a handler does: it returns a result or raises an exception
Returns(result) == [ raised |-> FALSE, result |-> result ]
Raises(text) == [ raised |-> TRUE, error |-> text ]

\* lines 80-100
data_processor_handler(event) ==
    IF event.kind = "array"
    THEN Raises("'list' object has no attribute 'get'")
    ELSE LET data == IF "data" \in event.keys THEN event.data
                                               ELSE JList(<< >>)
         IN  IF data.t # "list" THEN Raises("Data must be a list")
             ELSE IF \E i \in 1..Len(data.items) :
                        IF IsNumber(data.items[i])
                        THEN Overflows(data.items[i]) ELSE FALSE
             THEN Raises("(34, 'Numerical result out of range')")
             ELSE Returns(
                    [ original |-> data.items,
                      processed |->
                          [ i \in 1..Len(data.items) |->
                              IF IsNumber(data.items[i])
                              THEN Square(data.items[i])
                              ELSE data.items[i] ],
                      count |-> Len(data.items) ])

\* lines 156-170
error_handler_demo(event) ==
    IF event.kind = "array"
    THEN Raises("'list' object has no attribute 'get'")
    ELSE LET should_fail == IF "shouldFail" \in event.keys
                            THEN event.shouldFail ELSE FALSE
         IN  IF should_fail
             THEN Raises("This is a simulated error")
             ELSE Returns([ message |-> "Error handling demonstration",
                            status |-> "success" ])

\* handler_func(event, context) of line 45
Run(handler, event) ==
    IF handler = "data_processor_handler" THEN data_processor_handler(event)
                                          ELSE error_handler_demo(event)

\* the error answer names no request, whether a context exists or not
ErrorRequestId_unknown(context) == << "unknown" >>

\* line 59: context.request_id if 'context' in locals() else 'unknown'
ErrorRequestId(context) ==
    IF context # None THEN context.request_id ELSE << "unknown" >>

\* lines 47-52
Answer200(result, context) ==
    [ kind |-> "response", http |-> 200, statusCode |-> 200, body |-> result,
      requestId |-> context.request_id ]

\* lines 53-60
Answer500(text, context) ==
    [ kind |-> "response", http |-> 500, statusCode |-> 500, error |-> text,
      requestId |-> ErrorRequestId(context) ]

\* a POST arrives at the route of a wrapped handler
Invoke(h, b) ==
    /\ inv.pc = "idle"
    /\ inv' = [ inv EXCEPT !.pc = "event", !.handler = h, !.body = b ]
    /\ UNCHANGED << time, table, rq, xfer, syncVars >>

\* line 37: the event is built from the request; get_json raises on a
\* body that does not parse, and the handler of line 53 answers
BuildEvent ==
    /\ inv.pc = "event"
    /\ inv' = IF inv.body.kind = "malformed"
              THEN [ inv EXCEPT !.pc = "answered",
                                !.answer = Answer500("400 Bad Request",
                                                     inv.context) ]
              ELSE [ inv EXCEPT !.pc = "context", !.event = inv.body ]
    /\ UNCHANGED << time, table, rq, xfer, syncVars >>

\* line 38 and lines 19-24: the context takes its request id from the clock
CreateContext ==
    /\ inv.pc = "context"
    /\ inv' = [ inv EXCEPT !.pc = "handler",
                           !.context = [ kind |-> "LambdaContext",
                                         request_id |-> << "sim", time >> ] ]
    /\ UNCHANGED << time, table, rq, xfer, syncVars >>

\* lines 45-60: the handler runs; its result is answered by lines 47-52,
\* its exception by lines 53-60
RunHandler ==
    /\ inv.pc = "handler"
    /\ inv' =
          LET out == Run(inv.handler, inv.event)
          IN  [ inv EXCEPT !.pc = "answered",
                           !.answer =
                               IF out.raised
                               THEN Answer500(out.error, inv.context)
                               ELSE Answer200(out.result, inv.context) ]
    /\ UNCHANGED << time, table, rq, xfer, syncVars >>

NextLambda ==
    \/ \E h \in Handlers, b \in Bodies : Invoke(h, b)
    \/ BuildEvent
    \/ CreateContext
    \/ RunHandler
    \/ Tick

SpecLambda == InitSubmit /\ [][NextLambda]_vars

TypeOK ==
    /\ pc \in { "idle", "uploading", "deleting", "returned", "raised" }
    /\ passNo \in 0..MaxPasses
    /\ up_todo \subseteq DOMAIN local_files

(* ------------------------------ properties ---------------------------- *)

\* the call has ended: it returned or an exception left it
Ended == pc \in { "returned", "raised" }

\* keys the upload_file calls of the current pass were given
UploadKeys == { s3_key(s3_prefix, f) : f \in DOMAIN up_done }

\* keys the delete calls of the current pass were given
DeleteKeys == { s3_key(s3_prefix, r) : r \in DOMAIN del_done }

\* keys of the objects under the prefix
Under(bkt) == { k \in DOMAIN bkt : StartsWith(k, s3_prefix) }

\* no local file is stamped later than the bucket's clock of the first pass
NoSkew == \A f \in DOMAIN tree : tree[f] <= InitClock

\* C1: for every local file the loop of line 66 has reached, upload_file was
\* called iff its relative path is absent from the remote snapshot taken
\* from the bucket at the listing, or its local mtime is strictly greater
\* than the snapshot's mtime (equal mtimes: no upload).
C1_UploadIffAbsentOrNewer ==
    list_result = "ok" =>
        LET snap == ScanRemote(bucket0, s3_prefix)
        IN  \A f \in (DOMAIN local_files) \ up_todo :
                (f \in DOMAIN up_done) <=>
                    (IF f \in DOMAIN snap THEN local_files[f] > snap[f]
                                          ELSE TRUE)

\* C1 witness: a file whose mtime equals the remote mtime was passed over
C1_Witness ==
    /\ list_result = "ok"
    /\ \E f \in (DOMAIN local_files) \ up_todo :
          /\ f \in DOMAIN s3_objects
          /\ local_files[f] = s3_objects[f]
          /\ f \notin DOMAIN up_done

\* C2: in a pass over an existing directory that returned without a failed
\* call, an object listed under the prefix was the target of a delete call
\* iff delete is set and the relative path derived from its key is absent
\* from the local snapshot;
\* with delete unset no delete call is made.
C2_DeleteIffOrphan ==
    (dir_exists /\ pc = "returned" /\ NoFailure) =>
        /\ \A k \in Under(bucket0) :
              (k \in DeleteKeys) <=>
                  (delete /\ relative_path(s3_prefix, k) \notin DOMAIN local_files)
        /\ (~ delete => DOMAIN del_done = {})

\* C3: a delete call is made, and the loop of line 76 is entered, only when
\* the loop of line 66 has reached every local file: every upload of the
\* pass has completed before the first delete starts.
C3_UploadsBeforeDeletes ==
    (pc = "deleting" \/ DOMAIN del_done # {}) => up_todo = {}

\* C3 witness: a pass that uploaded and then deleted
C3_Witness ==
    /\ DOMAIN up_done # {}
    /\ DOMAIN del_done # {}

\* C4: when a call has ended, without an interrupt, in which an upload_file
\* call failed and no delete call did, every other planned action was
\* attempted: every local file that needed an upload had its upload_file
\* call, and with delete set
\* every orphaned relative path had its delete call.
C4_FailureDoesNotAbort ==
    ( /\ Ended /\ list_result = "ok" /\ ~ cancelled
      /\ \E f \in DOMAIN up_done : up_done[f] # "ok"
      /\ \A r \in DOMAIN del_done : del_done[r] = "ok" ) =>
        /\ \A f \in DOMAIN local_files :
              NeedsUpload(local_files, s3_objects, f) => f \in DOMAIN up_done
        /\ delete =>
              \A r \in DOMAIN s3_objects :
                  NeedsDelete(local_files, r) => r \in DOMAIN del_done

\* C5 as claimed: when the listing fails the error reaches the caller (an
\* exception leaves the call) and nothing was uploaded or deleted.
C5_ListingErrorReachesCaller ==
    list_result \in { "ClientError", "OtherError" } =>
        /\ pc = "raised"
        /\ DOMAIN up_done = {} /\ DOMAIN del_done = {}
        /\ bucket = bucket0

\* C5 amended: when the listing fails no upload and no delete is attempted
\* and the bucket is as it was when the call started; a ClientError is
\* caught and the call returns normally, an exception of another class
\* leaves the call.
C5_ListingErrorNoAction ==
    list_result \in { "ClientError", "OtherError" } =>
        /\ pc = (IF list_result = "ClientError" THEN "returned" ELSE "raised")
        /\ DOMAIN up_done = {} /\ DOMAIN del_done = {}
        /\ up_todo = {} /\ del_todo = << >>
        /\ bucket = bucket0

\* C5 witness: the listing raised ClientError with files to upload and
\* objects under the prefix
C5_Witness ==
    /\ list_result = "ClientError"
    /\ pc = "returned"
    /\ DOMAIN local_files # {}
    /\ Under(bucket) # {}

\* C6: when local_dir does not exist a pass uploads nothing, deletes nothing
\* and leaves the bucket as it was.
C6_MissingDirNoAction ==
    (~ dir_exists /\ passNo >= 1) =>
        /\ DOMAIN up_done = {}
        /\ DOMAIN del_done = {}
        /\ bucket = bucket0

\* C7: a pass that follows a pass which returned without a failed call, on
\* the same directory, prefix and unchanged files, none of them stamped
\* later than the bucket's clock, uploads nothing, and deletes nothing when
\* delete is unset.
C7_SecondRunIdle ==
    (passNo >= 2 /\ prev_clean /\ NoSkew) =>
        /\ DOMAIN up_done = {}
        /\ (~ delete => DOMAIN del_done = {})

\* C8: after a pass that returned without a failed call, over files none of
\* which is stamped later than the bucket's clock, a remote scan of the
\* prefix holds every local file's relative path with an mtime not smaller
\* than the file's local mtime.
C8_RemoteAtLeastLocal ==
    (pc = "returned" /\ NoFailure /\ NoSkew) =>
        LET snap == ScanRemote(bucket, s3_prefix)
        IN  \A f \in DOMAIN local_files :
                IF f \in DOMAIN snap THEN snap[f] >= local_files[f] ELSE FALSE

\* C9: after a pass over an existing directory that returned without a
\* failed call, with delete set or from a prefix that held no object, the
\* keys under the prefix are exactly the keys built from the local snapshot.
C9_RemoteMirrorsLocal ==
    ( /\ dir_exists /\ pc = "returned" /\ NoFailure
      /\ (delete \/ Under(bucket0) = {}) ) =>
        Under(bucket) = { s3_key(s3_prefix, f) : f \in DOMAIN local_files }

\* C10: in a pass the keys uploaded to and the keys deleted are disjoint,
\* and no key is the target of two actions.
C10_ActionsDisjoint ==
    /\ UploadKeys \cap DeleteKeys = {}
    /\ \A f, g \in DOMAIN up_done :
          s3_key(s3_prefix, f) = s3_key(s3_prefix, g) => f = g
    /\ \A r, q \in DOMAIN del_done :
          s3_key(s3_prefix, r) = s3_key(s3_prefix, q) => r = q

\* every run of slashes becomes one slash
RECURSIVE Collapse(_)
Collapse(s) ==
    IF Len(s) < 2 THEN s
    ELSE IF s[1] = "/" /\ s[2] = "/" THEN Collapse(Tail(s))
    ELSE << s[1] >> \o Collapse(Tail(s))

\* prefix + "/" + relative path, separators written as slashes, duplicate
\* slashes collapsed, no leading slash
NormalKey(prefix, rel) ==
    lstrip(Collapse(replace(prefix \o << "/" >> \o rel,
                            << "\\" >>, << "/" >>)), "/")

\* C11: every key upload_file was called with in the pass is
\* prefix + "/" + relative path with duplicate slashes collapsed and no
\* leading slash, for every prefix (the empty one and one ending in a slash
\* included) and every relative path.
C11_KeyIsNormalised ==
    \A f \in DOMAIN up_done :
        s3_key(s3_prefix, f) = NormalKey(s3_prefix, f)

\* C12: two distinct files of the local snapshot of a pass never map to the
\* same remote key.
C12_KeyInjective ==
    \A f, g \in DOMAIN local_files :
        s3_key(s3_prefix, f) = s3_key(s3_prefix, g) => f = g

\* the prefix removed from the start of the key, then one leading slash
StripOnce(prefix, key) ==
    LET rest == IF StartsWith(key, prefix)
                THEN SubSeq(key, Len(prefix) + 1, Len(key))
                ELSE key
    IN  IF rest # <<>> /\ Head(rest) = "/" THEN Tail(rest) ELSE rest

\* C13: the relative paths of the remote snapshot are those of the listed
\* keys with the prefix removed from the start and then a single leading
\* slash removed; a later occurrence of the prefix inside the key and
\* further leading slashes stay.
C13_RelativePathStripsOnce ==
    list_result = "ok" =>
        DOMAIN s3_objects =
            { StripOnce(s3_prefix, k) : k \in Under(bucket0) }

\* C14: the remote snapshot of a pass has an entry for every object stored
\* under the prefix when the listing was made, whatever the page size: no
\* object beyond the first response is missing.
C14_SnapshotHasEveryObject ==
    list_result = "ok" =>
        \A k \in Under(bucket0) :
            relative_path(s3_prefix, k) \in DOMAIN s3_objects

\* a listing of more keys than one response holds was made
C14_Witness ==
    /\ list_result = "ok"
    /\ Cardinality(Under(bucket0)) > PageSize
    /\ Cardinality(DOMAIN s3_objects) > PageSize

\* C15: no step of a pass, whatever the outcome of its calls, changes the
\* local tree: the directory, its set of files and their mtimes stay as
\* they were.
C15_LocalTreeUnchanged ==
    [][tree' = tree /\ dir_exists' = dir_exists]_vars

\* a pass over a tree with a file has uploaded and has ended on a failure
C15_Witness ==
    /\ pc = "raised"
    /\ \E f \in DOMAIN tree : f \in DOMAIN up_done /\ up_done[f] = "ok"

\* C16: in a call that follows a pass in which an upload failed with a
\* caught error, over the same files, none stamped later than the bucket's
\* clock, the files upload_file is called for are exactly the files the
\* loop has reached
\* whose key is absent from the bucket or holds an older object (a file the
\* pass before uploaded is not among them: its object is not older).
C16_RetryOnlyOutOfDate ==
    ( /\ dir_exists /\ passNo >= 2 /\ list_result = "ok" /\ NoSkew
      /\ prev_up_failed ) =>
        \A f \in (DOMAIN local_files) \ up_todo :
            LET key == s3_key(s3_prefix, f)
                stale == IF key \in DOMAIN bucket0
                         THEN bucket0[key] < local_files[f]
                         ELSE TRUE
            IN  (f \in DOMAIN up_done) <=> stale

\* the printed lines of the current pass about a file or key
LinesAbout(item) == { i \in 1..Len(stdout) : stdout[i].item = item }

\* C17: within a pass each planned upload and delete is attempted at most
\* once (a file or path that was attempted is not planned again and has at
\* most one printed line), and each attempt that failed is recorded as
\* failed by an error line that names it.
C17_AttemptedOnceAndRecorded ==
    /\ up_todo \cap DOMAIN up_done = {}
    /\ \A i \in 1..Len(del_todo) : del_todo[i] \notin DOMAIN del_done
    /\ \A f \in DOMAIN up_done :
          /\ Cardinality({ i \in LinesAbout(f) :
                            stdout[i].line \in { "Synced",
                                                 "Error syncing file" } }) <= 1
          /\ up_done[f] # "ok" =>
                \E i \in LinesAbout(f) : stdout[i].line = "Error syncing file"
    /\ \A r \in DOMAIN del_done :
          /\ Cardinality({ i \in LinesAbout(s3_key(s3_prefix, r)) :
                            stdout[i].line \in { "Deleted",
                                                 "Error deleting" } }) <= 1
          /\ del_done[r] # "ok" =>
                \E i \in LinesAbout(s3_key(s3_prefix, r)) :
                    stdout[i].line = "Error deleting"

\* the report a pass would return: its successful and its failed actions
Report ==
    [ kind     |-> "report",
      uploaded |-> { f \in DOMAIN up_done : up_done[f] = "ok" },
      deleted  |-> { r \in DOMAIN del_done : del_done[r] = "ok" },
      failed   |-> { f \in DOMAIN up_done : up_done[f] # "ok" }
                   \cup { r \in DOMAIN del_done : del_done[r] # "ok" } ]

C19_CancelReportsSkipped ==
    cancelled =>
        /\ ReturnValue.kind = "report"
        /\ ReturnValue.skipped =
              up_todo \cup { del_todo[i] : i \in 1..Len(del_todo) }

\* C19: an interrupt ends the call at once. From then on no upload and no
\* delete is dispatched and nothing is printed; the call yields no value,
\* and no line is printed about a file the upload loop had not reached.
C19_InterruptEndsCall ==
    [][ /\ cancelled =>
              /\ bucket' = bucket
              /\ up_done' = up_done
              /\ del_done' = del_done
              /\ stdout' = stdout
        /\ cancelled' =>
              /\ pc' = "raised"
              /\ \A f \in up_todo' : \A i \in 1..Len(stdout') :
                    stdout'[i].item # f ]_vars

\* an interrupt came after an upload, with deletes still to do
C19_Witness ==
    /\ cancelled
    /\ DOMAIN up_done # {}
    /\ del_todo # << >>

\* the requests the route answered with status 'success'
Accepted ==
    { i \in 1..MaxRequests :
        rq[i].pc = "done" /\ rq[i].response.status = "success" }

\* C20: any two submissions the route accepted, however their requests
\* interleave and also within one second, are stored under distinct
\* user_id keys, so each of them is still in the table.
C20_UniqueUserId ==
    /\ \A i, j \in Accepted : i # j => rq[i].user_id # rq[j].user_id
    /\ \A i \in Accepted :
          /\ rq[i].user_id \in DOMAIN table
          /\ table[rq[i].user_id].name = rq[i].form.name
          /\ table[rq[i].user_id].email = rq[i].form.email
          /\ table[rq[i].user_id].message = rq[i].form.message

\* the item line 114 builds for a request
ItemOf(r) ==
    [ user_id |-> r.user_id, name |-> r.form.name, email |-> r.form.email,
      message |-> r.form.message ]

\* a form with a field that is absent or empty
Incomplete(form) ==
    \/ form.name \in { "None", "" }
    \/ form.email \in { "None", "" }
    \/ form.message \in { "None", "" }

\* C21: a request one of whose three fields is absent or empty is answered
\* status 'error', 'All fields are required', in a step that leaves the
\* table as it was and without ever calling put_item; a request whose
\* put_item raised is answered status 'error' in a step that leaves the
\* table as it was; a request is answered status 'success' only in the step
\* in which its put_item returned, with its item then in the table.
C21_SubmitAnswers ==
    [][ \A i \in 1..MaxRequests :
          /\ (rq[i].pc = "idle" /\ rq'[i].pc # "idle") =>
                /\ table' = table
                /\ IF Incomplete(rq'[i].form)
                   THEN /\ rq'[i].pc = "done"
                        /\ rq'[i].response =
                              [ status |-> "error",
                                message |-> "All fields are required" ]
                   ELSE rq'[i].pc = "put"
          /\ (rq[i].pc = "put" /\ rq'[i].pc = "done") =>
                IF rq'[i].response.status = "success"
                THEN /\ rq[i].user_id \in DOMAIN table'
                     /\ table'[rq[i].user_id] = ItemOf(rq[i])
                ELSE /\ rq'[i].response.status = "error"
                     /\ table' = table
          /\ (rq[i].pc = "done") => rq'[i] = rq[i] ]_vars

\* one request was refused for an empty field and another was answered
\* 'error' after its put_item raised, with no item stored
C21_Witness ==
    /\ \E i \in 1..MaxRequests :
          /\ rq[i].pc = "done"
          /\ rq[i].form.email = ""
          /\ rq[i].response.message = "All fields are required"
    /\ \E j \in 1..MaxRequests :
          /\ rq[j].pc = "done"
          /\ rq[j].user_id # << >>
          /\ rq[j].response.status = "error"
    /\ table = << >>

\* the handler of the invocation returned
HandlerReturned ==
    /\ inv.context # None
    /\ ~ Run(inv.handler, inv.event).raised

\* C22: a wrapped handler's invocation is answered in one of two shapes:
\* statusCode 200 with the handler's result as body when the handler
\* returned; otherwise HTTP status 500, statusCode 500 and the error text,
\* with the context's request id if the context had been created and
\* 'unknown' if not. The invocation always ends in an answer.
C22_WrapperAnswers ==
    /\ inv.pc \in { "idle", "event", "context", "handler", "answered" }
    /\ inv.pc = "answered" =>
          IF HandlerReturned
          THEN /\ inv.answer.http = 200
               /\ inv.answer.statusCode = 200
               /\ inv.answer.body = Run(inv.handler, inv.event).result
               /\ inv.answer.requestId = inv.context.request_id
          ELSE /\ inv.answer.http = 500
               /\ inv.answer.statusCode = 500
               /\ "error" \in DOMAIN inv.answer
               /\ inv.answer.requestId =
                     IF inv.context = None THEN << "unknown" >>
                     ELSE inv.context.request_id

\* error_handler_demo was asked to fail and was answered with the id of
\* its context
C22_Witness ==
    /\ inv.pc = "answered"
    /\ inv.handler = "error_handler_demo"
    /\ inv.answer.http = 500
    /\ inv.answer.requestId # << "unknown" >>

\* the "data" of the event of the invocation
EventData ==
    IF "data" \in inv.event.keys THEN inv.event.data ELSE JList(<< >>)

\* a JSON number
JsonNumber(item) == item.t \in { "int", "float" }

\* C23: data_processor_handler, given an event whose data is not a list, is
\* answered 500 with 'Data must be a list'; given a list it is answered
\* 200 with original equal to the list, processed of the same length
\* holding the square of each number and every other item unchanged at its
\* position, and count equal to the length.
C23_SquaresNumbers ==
    ( /\ inv.pc = "answered"
      /\ inv.handler = "data_processor_handler"
      /\ inv.event.kind = "object" ) =>
        IF EventData.t # "list"
        THEN /\ inv.answer.http = 500
             /\ inv.answer.error = "Data must be a list"
        ELSE /\ inv.answer.http = 200
             /\ inv.answer.body.original = EventData.items
             /\ inv.answer.body.count = Len(EventData.items)
             /\ Len(inv.answer.body.processed) = Len(EventData.items)
             /\ \A i \in 1..Len(EventData.items) :
                   inv.answer.body.processed[i] =
                       IF JsonNumber(EventData.items[i])
                       THEN Square(EventData.items[i])
                       ELSE EventData.items[i]

\* C24: in a pass over an existing directory every key a delete call was
\* given is a key the listing of the pass returned; the key rebuilt from
\* the relative path derived from a listed key is that key, and two
\* distinct listed keys have distinct relative paths.
C24_DeletesOnlyListedKeys ==
    (dir_exists /\ list_result = "ok") =>
        /\ DeleteKeys \subseteq Under(bucket0)
        /\ \A k \in Under(bucket0) :
              s3_key(s3_prefix, relative_path(s3_prefix, k)) = k
        /\ \A k, j \in Under(bucket0) :
              relative_path(s3_prefix, k) = relative_path(s3_prefix, j)
                  => k = j

\* C25: upload_directory followed by download_directory of the same prefix,
\* from a bucket that was empty into an empty target and with no failed
\* transfer, leaves under the target exactly the relative paths of the
\* files of the local directory.
C25_UploadDownloadRoundTrip ==
    ( /\ xfer.pc = "dl_returned"
      /\ dir_exists
      /\ bucket0 = << >>
      /\ \A f \in DOMAIN xfer.done : xfer.done[f] = "ok"
      /\ ~ xfer.dl_failed ) =>
        xfer.target = DOMAIN tree

\* C26: when upload_directory has ended, upload_file was called for every
\* regular file under the directory, the call returned, and the list it
\* returned holds exactly the keys of the files whose upload_file call
\* returned.
C26_UploadReturnsSucceeded ==
    xfer.pc \in { "up_returned", "up_raised" } =>
        /\ DOMAIN xfer.done = DOMAIN ScanLocal(dir_exists, tree)
        /\ xfer.pc = "up_returned"
        /\ { xfer.ret[i] : i \in 1..Len(xfer.ret) } =
              { s3_key(s3_prefix, f) :
                f \in { g \in DOMAIN xfer.done : xfer.done[g] = "ok" } }
        /\ Len(xfer.ret) =
              Cardinality({ g \in DOMAIN xfer.done : xfer.done[g] = "ok" })

\* C27: list_objects returns the key of every object under the prefix,
\* however many they are and whatever the page size, and the empty list
\* when there is none or when the listing call raised ClientError.
C27_ListObjectsComplete ==
    xfer.pc = "list_returned" =>
        { xfer.ret[i] : i \in 1..Len(xfer.ret) } =
            IF xfer.done["list_objects_v2"] = "ok" THEN Under(bucket)
                                                   ELSE {}

====
